---- MODULE Spec2Model ----
(***************************************************************************)
(* The storage-folder addition protocol of the host's contract manager:    *)
(* ContractManager.AddStorageFolder, writeAheadLog.managedAddStorageFolder,*)
(* the startup cleanup of unfinished additions and the replay of committed *)
(* additions (modules/host/contractmanager/storagefolderadd.go).           *)
(*                                                                         *)
(* Each call of AddStorageFolder is one process of the model.  The locked  *)
(* sections of managedAddStorageFolder are guarded by the mutex mu; the    *)
(* waits on the sync channel, the allocation loop and the atomic progress  *)
(* counters are separate steps, so that every interleaving of concurrent   *)
(* calls, of the WAL's flush and of a power failure is explored.           *)
(*                                                                         *)
(* writeAheadLog.appendChange, the flush that closes wal.syncChan and the  *)
(* startup replay loop live in files of the repository that are not part   *)
(* of the sources at hand; they are modelled from the specification        *)
(* (sections 3, 4.1 and 4.3).                                              *)
(***************************************************************************)
EXTENDS Integers, Sequences, FiniteSets, TLC

----------------------------------------------------------------------------
(* Bounds of the model. *)

\* number of AddStorageFolder calls made over the life of the model
NumCalls == 2
\* size of the folder index space (65536 in the code, storagefolderadd.go:123)
IndexSpace == 2
\* number of power failures
MaxCrashes == 1
\* number of I/O failures (file create, write, sync, remove, WAL append)
MaxFaults == 1
\* length of the sequences of state changes given to the scan on its own
MaxScanLen == 3

(* Program constants. *)

\* modules.SectorSize and the contract manager's limits (testing build)
SectorSize == 4096
sectorMetadataDiskSize == 14
minimumSectorsPerStorageFolder == 64
maximumSectorsPerStorageFolder == 4096
storageFolderGranularity == 64
maximumStorageFolders == 1
\* sectors tracked by one uint64 word of Usage (storagefolderadd.go:57)
UsageWordBits == 64
\* bytes written per iteration of the allocation loop (storagefolderadd.go:193)
WriteChunk == 4000000

Calls == 1..NumCalls
Indices == 0..(IndexSpace - 1)

(* The inputs of AddStorageFolder.  "/a", "/b" and "/c" are existing       *)
(* directories, "rel" is a relative path, "/file" is a regular file and    *)
(* "/none" does not exist.                                                 *)
Paths == {"/a", "/b", "/c", "rel", "/file", "/none"}
Dirs == <<"/a", "/b", "/c">>
GoodPaths == {Dirs[k] : k \in 1..Len(Dirs)}
IsAbs(path) == path \in {"/a", "/b", "/c", "/file", "/none"}
StatOk(path) == path \in {"/a", "/b", "/c", "rel", "/file"}
IsDir(path) == path \in {"/a", "/b", "/c", "rel"}

\* sizes in bytes that pass the checks: the minimum (less than one chunk), and
\* 1024 sectors plus a partial sector (one chunk and a remainder)
GoodSizes == {64 * SectorSize, 1024 * SectorSize + 100}
\* and sizes that do not: too small, not a multiple of the granularity, too large
Sizes == GoodSizes \cup {0, 100 * SectorSize, 5000 * SectorSize}

\* what files holds for a path under which no sector file exists
NoFile == -1
NoSF == [id |-> 0, Index |-> -1, Path |-> ""]

VARIABLES
    pc,                 \* position of each call
    sfPath,             \* the path argument of the call; sf.Path
    argSize,            \* the size argument of the call
    sfUsage,            \* sf.Usage
    sfIndex,            \* sf.Index
    num,                \* sf.atomicProgressNumerator
    den,                \* sf.atomicProgressDenominator
    wi,                 \* loop variable i of the allocation loop
    err,                \* the variable err of the call ({} is nil)
    returned,           \* the error the call returned to its caller ({} is nil)
    syncChan,           \* the sync channel the call captured
    mu,                 \* wal.mu: 0 when free, else the holder
    storageFolders,     \* wal.cm.storageFolders
    uncommittedChanges, \* wal.uncommittedChanges
    log,                \* the state changes written to the WAL file
    flushedLen,         \* length of the prefix of log known to be on disk
    files,              \* bytes of the sector file under each path, or NoFile
    phase,              \* "up", "down" (after a power failure), "cleanup"
    usfs,               \* unfinished additions the startup cleanup has left
    crashes,            \* power failures so far
    failedReads,        \* sf.failedReads of each folder
    critical,           \* wal.cm.log.Critical was called
    faults,             \* I/O failures injected so far
    configuredMaximum   \* the maximum number of storage folders of the build

vars == <<pc, sfPath, argSize, sfUsage, sfIndex, num, den, wi, err, returned,
          syncChan, mu, storageFolders, uncommittedChanges, log, flushedLen, files, phase,
          usfs, crashes, failedReads, critical, faults, configuredMaximum>>

callVars == <<sfPath, argSize, sfUsage, sfIndex, num, den, wi, err, returned,
              syncChan>>
walVars == <<storageFolders, uncommittedChanges, log, flushedLen>>
sysVars == <<phase, usfs, crashes, failedReads, critical, faults, configuredMaximum>>

----------------------------------------------------------------------------
(* State changes. *)

SF(p) == [id |-> p, Index |-> sfIndex[p], Path |-> sfPath[p]]

StateChange(unfinished, additions, errored) ==
    [UnfinishedStorageFolderAdditions |-> unfinished,
     StorageFolderAdditions |-> additions,
     ErroredStorageFolderAdditions |-> errored]

Range(s) == {s[k] : k \in 1..Len(s)}

RECURSIVE PutAll(_, _)
PutAll(m, sfs) ==
    IF sfs = <<>> THEN m
    ELSE PutAll([m EXCEPT ![Head(sfs).Index] = Head(sfs)], Tail(sfs))

DeleteAll(m, idxs) == [i \in DOMAIN m |-> IF i \in idxs THEN NoSF ELSE m[i]]

\* an iteration that leaves out the errored additions; C15 fails with it
ScanWithoutErrored(m, sc) ==
    DeleteAll(PutAll(m, sc.UnfinishedStorageFolderAdditions),
              {sf.Index : sf \in Range(sc.StorageFolderAdditions)})

\* one iteration of the outer loop of findUnfinishedStorageFolderAdditions
ScanStateChange(m, sc) ==
    DeleteAll(DeleteAll(PutAll(m, sc.UnfinishedStorageFolderAdditions),
                        {sf.Index : sf \in Range(sc.StorageFolderAdditions)}),
              Range(sc.ErroredStorageFolderAdditions))

RECURSIVE UsfMap(_)
UsfMap(scs) ==
    IF scs = <<>> THEN [i \in Indices |-> NoSF]
    ELSE ScanStateChange(UsfMap(SubSeq(scs, 1, Len(scs) - 1)), scs[Len(scs)])

\* a scan that looks at the last state change alone; C4 fails with it
findUnfinishedInLastChange(scs) ==
    IF scs = <<>> THEN {}
    ELSE LET m == ScanStateChange([j \in Indices |-> NoSF], scs[Len(scs)])
         IN {m[i] : i \in Indices} \ {NoSF}

findUnfinishedStorageFolderAdditions(scs) ==
    {UsfMap(scs)[i] : i \in Indices} \ {NoSF}

----------------------------------------------------------------------------
(* The write-ahead log: appendChange and the flush (commit) routine.       *)

\* appendChange writes the change to the WAL file and adds it to the
\* uncommitted changes; on an I/O failure it returns an error and adds nothing
LogAfterAppend(sc, ok) == IF ok THEN Append(log, sc) ELSE log
UncommittedAfterAppend(sc, ok) ==
    IF ok THEN Append(uncommittedChanges, sc) ELSE uncommittedChanges

RECURSIVE SetToSeq(_)
SetToSeq(S) ==
    IF S = {} THEN <<>>
    ELSE LET x == CHOOSE y \in S : \A z \in S : y.Index <= z.Index
         IN <<x>> \o SetToSeq(S \ {x})

\* The changes that stay uncommitted across a flush: the additions that are
\* still unfinished are carried over into the next generation of the WAL, so
\* that the checks of managedAddStorageFolder keep seeing them (the comment
\* at storagefolderadd.go:103-105 relies on a pending addition and its
\* completion both being among the uncommitted changes).
CarriedOver(scs) ==
    LET unfinished == findUnfinishedStorageFolderAdditions(scs)
    IN IF unfinished = {} THEN <<>>
       ELSE <<StateChange(SetToSeq(unfinished), <<>>, <<>>)>>

\* The flush: everything appended so far becomes durable, the sync channel
\* shared by the appends since the last flush is closed and a fresh one made.
Sync ==
    /\ phase = "up"
    /\ mu = 0
    /\ flushedLen < Len(log) \/ \E p \in Calls : syncChan[p] = "open"
    /\ flushedLen' = Len(log)
    /\ uncommittedChanges' = CarriedOver(uncommittedChanges)
    /\ syncChan' = [p \in Calls |-> IF syncChan[p] = "open" THEN "closed" ELSE syncChan[p]]
    /\ UNCHANGED <<pc, sfPath, argSize, sfUsage, sfIndex, num, den, wi, err, returned,
                   mu, storageFolders, log, files, sysVars>>

----------------------------------------------------------------------------
(* ContractManager.AddStorageFolder: the checks made before the WAL is     *)
(* involved.                                                               *)

\* the checks without the one for a relative path; C10 fails with it
EntryErrorWithoutIsAbs(path, size) ==
    LET sectors == size \div SectorSize
    IN IF sectors > maximumSectorsPerStorageFolder THEN "errLargeStorageFolder"
       ELSE IF sectors < minimumSectorsPerStorageFolder THEN "errSmallStorageFolder"
       ELSE IF (size \div SectorSize) % storageFolderGranularity # 0
            THEN "errStorageFolderGranularity"
       ELSE IF ~StatOk(path) THEN "errStat"
       ELSE IF ~IsDir(path) THEN "errStorageFolderNotFolder"
       ELSE "ok"

EntryError(path, size) ==
    LET sectors == size \div SectorSize
    IN IF sectors > maximumSectorsPerStorageFolder THEN "errLargeStorageFolder"
       ELSE IF sectors < minimumSectorsPerStorageFolder THEN "errSmallStorageFolder"
       ELSE IF (size \div SectorSize) % storageFolderGranularity # 0
            THEN "errStorageFolderGranularity"
       ELSE IF ~IsAbs(path) THEN "errRelativePath"
       ELSE IF ~StatOk(path) THEN "errStat"
       ELSE IF ~IsDir(path) THEN "errStorageFolderNotFolder"
       ELSE "ok"

\* make([]uint64, size/modules.SectorSize/64)
NewUsage(size) == [k \in 1..((size \div SectorSize) \div UsageWordBits) |-> 0]

\* The directories are interchangeable: a call names a directory an earlier
\* call named, or the first one no call has named yet.
NextDirectory(p, path) ==
    \A k \in 1..Len(Dirs) :
        path = Dirs[k] =>
            \A j \in 1..(k - 1) : \E q \in Calls : q < p /\ sfPath[q] = Dirs[j]

AddStorageFolder(p, path, size) ==
    /\ phase = "up"
    /\ pc[p] = "idle"
    /\ \A q \in Calls : q < p => pc[q] # "idle"  \* the calls are numbered as made
    /\ NextDirectory(p, path)
    /\ sfPath' = [sfPath EXCEPT ![p] = path]
    /\ argSize' = [argSize EXCEPT ![p] = size]
    /\ IF EntryError(path, size) # "ok"
       THEN /\ pc' = [pc EXCEPT ![p] = "done"]
            /\ err' = [err EXCEPT ![p] = {EntryError(path, size)}]
            /\ returned' = [returned EXCEPT ![p] = {EntryError(path, size)}]
            /\ UNCHANGED sfUsage
       ELSE /\ pc' = [pc EXCEPT ![p] = "lock1"]
            /\ sfUsage' = [sfUsage EXCEPT ![p] = NewUsage(size)]
            /\ UNCHANGED <<err, returned>>
    /\ UNCHANGED <<sfIndex, num, den, wi, syncChan, mu, walVars, files, sysVars>>

----------------------------------------------------------------------------
(* writeAheadLog.managedAddStorageFolder.                                  *)

numSectors(p) == Len(sfUsage[p]) * UsageWordBits
sectorLookupSize(p) == numSectors(p) * sectorMetadataDiskSize
sectorHousingSize(p) == numSectors(p) * SectorSize
\* the size without the sector lookup; C6 fails with it
totalSizeWithoutLookup(p) == sectorHousingSize(p)
totalSize(p) == sectorLookupSize(p) + sectorHousingSize(p)
writeCount(p) == totalSize(p) \div WriteChunk
finalWriteSize(p) == totalSize(p) % WriteChunk

\* wal.mu.Lock() of the first locked section
Lock1(p) ==
    /\ phase = "up"
    /\ pc[p] = "lock1"
    /\ mu = 0
    /\ mu' = p
    /\ pc' = [pc EXCEPT ![p] = "validate"]
    /\ UNCHANGED <<callVars, walVars, files, sysVars>>

\* the duplicate check against the committed folders alone; C2 fails with it
IsRepeatOfCommitted(p) ==
    \E i \in Indices :
        storageFolders[i] # NoSF /\ sfPath[p] = storageFolders[i].Path

\* the duplicate check against the committed folders and the uncommitted changes
IsRepeatFolder(p) ==
    \/ \E i \in Indices :
          storageFolders[i] # NoSF /\ sfPath[p] = storageFolders[i].Path
    \/ \E k \in 1..Len(uncommittedChanges) :
          \E usfa \in Range(uncommittedChanges[k].UnfinishedStorageFolderAdditions) :
             usfa.Path = sfPath[p]

\* the indices of the committed folders alone; C1 fails with it
uniqueFoldersCommitted ==
    {storageFolders[i].Index : i \in {j \in Indices : storageFolders[j] # NoSF}}

\* the indices of the committed folders and of the uncommitted additions
uniqueFolders ==
    {storageFolders[i].Index : i \in {j \in Indices : storageFolders[j] # NoSF}}
    \cup {usfa.Index : usfa \in
            UNION {Range(uncommittedChanges[k].UnfinishedStorageFolderAdditions) :
                   k \in 1..Len(uncommittedChanges)}}

TooManyFolders == Cardinality(uniqueFolders) > configuredMaximum

\* the probing loop: index++ wraps around the index space
RECURSIVE Probe(_, _, _)
Probe(index, iterator, used) ==
    IF iterator = IndexSpace \/ index \notin used
    THEN [index |-> index, iterator |-> iterator]
    ELSE Probe((index + 1) % IndexSpace, iterator + 1, used)

\* a return that leaves the lock taken; C19 fails with it
ReturnKeepingLock(p, e) ==
    /\ pc' = [pc EXCEPT ![p] = "done"]
    /\ err' = [err EXCEPT ![p] = {e}]
    /\ returned' = [returned EXCEPT ![p] = {e}]
    /\ mu' = mu

\* leaving the first locked section with an error: nothing was deferred yet
ReturnLocked(p, e) ==
    /\ pc' = [pc EXCEPT ![p] = "done"]
    /\ err' = [err EXCEPT ![p] = {e}]
    /\ returned' = [returned EXCEPT ![p] = {e}]
    /\ mu' = 0

\* the first locked section up to the choice of the index
ValidateReject(p) ==
    /\ phase = "up"
    /\ pc[p] = "validate"
    /\ mu = p
    /\ \/ /\ IsRepeatFolder(p)
          /\ ReturnLocked(p, "errRepeatFolder")
          /\ UNCHANGED critical
       \/ /\ ~IsRepeatFolder(p)
          /\ TooManyFolders
          /\ ReturnLocked(p, "errMaxStorageFolders")
          /\ UNCHANGED critical
       \/ /\ ~IsRepeatFolder(p)
          /\ ~TooManyFolders
          /\ \E rand \in Indices : Probe(rand, 0, uniqueFolders).iterator = IndexSpace
          /\ ReturnLocked(p, "errMaxStorageFolders")
          /\ critical' = TRUE
    /\ UNCHANGED <<sfPath, argSize, sfUsage, sfIndex, num, den, wi, syncChan,
                   walVars, files, phase, usfs, crashes, configuredMaximum, failedReads, faults>>

\* the first locked section when the checks pass: the index is assigned, the
\* file created, the denominator set, the pending addition appended and the
\* sync channel captured
AssignAndAppend(p, createOk, appendOk) ==
    /\ phase = "up"
    /\ pc[p] = "validate"
    /\ mu = p
    /\ ~IsRepeatFolder(p)
    /\ ~TooManyFolders
    /\ \E rand \in Indices :
          LET probe == Probe(rand, 0, uniqueFolders)
              sf == [id |-> p, Index |-> probe.index, Path |-> sfPath[p]]
              sc == StateChange(<<sf>>, <<>>, <<>>)
          IN /\ probe.iterator < IndexSpace
             /\ sfIndex' = [sfIndex EXCEPT ![p] = probe.index]
             /\ IF createOk
                THEN /\ files' = [files EXCEPT ![sfPath[p]] = 0]
                     /\ den' = [den EXCEPT ![p] = totalSize(p)]
                     /\ log' = LogAfterAppend(sc, appendOk)
                     /\ uncommittedChanges' = UncommittedAfterAppend(sc, appendOk)
                     /\ syncChan' = [syncChan EXCEPT ![p] = "open"]
                     /\ pc' = [pc EXCEPT ![p] = "wait1"]
                     /\ UNCHANGED <<err, returned>>
                ELSE /\ pc' = [pc EXCEPT ![p] = "done"]
                     /\ err' = [err EXCEPT ![p] = {"createFile"}]
                     /\ returned' = [returned EXCEPT ![p] = {"createFile"}]
                     /\ UNCHANGED <<files, den, log, uncommittedChanges, syncChan>>
    /\ mu' = 0
    /\ faults' = faults + (IF createOk /\ appendOk THEN 0 ELSE 1)
    /\ UNCHANGED <<sfPath, argSize, sfUsage, num, wi, storageFolders, flushedLen,
                   phase, usfs, crashes, configuredMaximum, failedReads, critical>>

ManagedAddLocked(p) == AssignAndAppend(p, TRUE, TRUE)

\* an allocation that is entered with the lock taken; C18 fails with it
WaitPendingTakingLock(p) ==
    /\ phase = "up"
    /\ pc[p] = "wait1"
    /\ syncChan[p] = "closed"
    /\ mu = 0
    /\ mu' = p
    /\ pc' = [pc EXCEPT ![p] = "alloc"]
    /\ UNCHANGED <<callVars, walVars, files, sysVars>>

\* <-syncChan after the pending addition
WaitPending(p) ==
    /\ phase = "up"
    /\ pc[p] = "wait1"
    /\ syncChan[p] = "closed"
    /\ pc' = [pc EXCEPT ![p] = "alloc"]
    /\ UNCHANGED <<callVars, mu, walVars, files, sysVars>>

\* sf.file.Write on the open handle: the bytes land in the file while it exists
Written(path, n) ==
    IF files[path] = NoFile THEN files ELSE [files EXCEPT ![path] = @ + n]

\* one iteration of the allocation loop
WriteChunkStep(p, ok) ==
    /\ phase = "up"
    /\ pc[p] = "alloc"
    /\ wi[p] < writeCount(p)
    /\ IF ok
       THEN /\ files' = Written(sfPath[p], WriteChunk)
            /\ num' = [num EXCEPT ![p] = @ + WriteChunk]
            /\ wi' = [wi EXCEPT ![p] = @ + 1]
            /\ UNCHANGED <<pc, err, returned, faults>>
       ELSE /\ pc' = [pc EXCEPT ![p] = "rollback"]
            /\ err' = [err EXCEPT ![p] = {"write"}]
            /\ returned' = [returned EXCEPT ![p] = {"write"}]
            /\ faults' = faults + 1
            /\ UNCHANGED <<files, num, wi>>
    /\ UNCHANGED <<sfPath, argSize, sfUsage, sfIndex, den, syncChan, mu, walVars,
                   phase, usfs, crashes, configuredMaximum, failedReads, critical>>

AllocateChunk(p) == WriteChunkStep(p, TRUE)

\* the write of the final bytes, the file sync and the report of complete
\* progress
FinishAllocation(p, writeOk, syncOk) ==
    /\ phase = "up"
    /\ pc[p] = "alloc"
    /\ wi[p] = writeCount(p)
    /\ IF writeOk /\ syncOk
       THEN /\ files' = Written(sfPath[p], finalWriteSize(p))
            /\ den' = [den EXCEPT ![p] = totalSize(p)]
            /\ pc' = [pc EXCEPT ![p] = "allocated"]
            /\ UNCHANGED <<err, returned, faults>>
       ELSE /\ files' = IF writeOk THEN Written(sfPath[p], finalWriteSize(p)) ELSE files
            /\ pc' = [pc EXCEPT ![p] = "rollback"]
            /\ err' = [err EXCEPT ![p] = {IF writeOk THEN "sync" ELSE "write"}]
            /\ returned' = [returned EXCEPT ![p] = {IF writeOk THEN "sync" ELSE "write"}]
            /\ faults' = faults + 1
            /\ UNCHANGED den
    /\ UNCHANGED <<sfPath, argSize, sfUsage, sfIndex, num, wi, syncChan, mu, walVars,
                   phase, usfs, crashes, configuredMaximum, failedReads, critical>>

AllocateFinal(p) == FinishAllocation(p, TRUE, TRUE)

\* wal.cm.dependencies.disrupt("incompleteAddStorageFolder") answers true
Disrupt(p) ==
    /\ phase = "up"
    /\ pc[p] = "allocated"
    /\ pc' = [pc EXCEPT ![p] = "disrupted"]
    /\ UNCHANGED <<sfPath, argSize, sfUsage, sfIndex, num, den, wi, err, returned,
                   syncChan, mu, walVars, files, sysVars>>

\* wal.mu.Lock() of the finalizing section
LockFinal(p) ==
    /\ phase = "up"
    /\ pc[p] = "allocated"
    /\ mu = 0
    /\ mu' = p
    /\ pc' = [pc EXCEPT ![p] = "fin_num"]
    /\ UNCHANGED <<callVars, walVars, files, sysVars>>

\* the denominator reset before the numerator; C8 fails with it
ResetDenominatorFirst(p) ==
    /\ phase = "up"
    /\ pc[p] = "fin_num"
    /\ den' = [den EXCEPT ![p] = 0]
    /\ pc' = [pc EXCEPT ![p] = "fin_commit"]
    /\ UNCHANGED <<sfPath, argSize, sfUsage, sfIndex, num, wi, err, returned, syncChan, mu,
                   walVars, files, sysVars>>

\* atomic.StoreUint64(&sf.atomicProgressNumerator, 0)
ResetNumerator(p) ==
    /\ phase = "up"
    /\ pc[p] = "fin_num"
    /\ num' = [num EXCEPT ![p] = 0]
    /\ pc' = [pc EXCEPT ![p] = "fin_commit"]
    /\ UNCHANGED <<sfPath, argSize, sfUsage, sfIndex, den, wi, err, returned, syncChan, mu,
                   walVars, files, sysVars>>

\* atomic.StoreUint64(&sf.atomicProgressDenominator, 0); the folder is put
\* into the state and its addition appended to the WAL
CommitAddition(p, appendOk) ==
    /\ phase = "up"
    /\ pc[p] = "fin_commit"
    /\ mu = p
    /\ den' = [den EXCEPT ![p] = 0]
    /\ storageFolders' = [storageFolders EXCEPT ![sfIndex[p]] = SF(p)]
    /\ log' = LogAfterAppend(StateChange(<<>>, <<SF(p)>>, <<>>), appendOk)
    /\ uncommittedChanges' =
          UncommittedAfterAppend(StateChange(<<>>, <<SF(p)>>, <<>>), appendOk)
    /\ IF appendOk
       THEN /\ syncChan' = [syncChan EXCEPT ![p] = "open"]
            /\ pc' = [pc EXCEPT ![p] = "wait2"]
            /\ UNCHANGED <<err, returned, faults>>
       ELSE /\ pc' = [pc EXCEPT ![p] = "rollback"]
            /\ err' = [err EXCEPT ![p] = {"append"}]
            /\ returned' = [returned EXCEPT ![p] = {"append"}]
            /\ faults' = faults + 1
            /\ UNCHANGED syncChan
    /\ mu' = 0
    /\ UNCHANGED <<sfPath, argSize, sfUsage, sfIndex, num, wi, flushedLen, files,
                   phase, usfs, crashes, configuredMaximum, failedReads, critical>>

FinalizeLocked(p) == CommitAddition(p, TRUE)

\* a return that does not wait for the flush; C9 fails with it
ReturnWithoutWait(p) ==
    /\ phase = "up"
    /\ pc[p] = "wait2"
    /\ pc' = [pc EXCEPT ![p] = "done"]
    /\ UNCHANGED <<callVars, mu, walVars, files, sysVars>>

\* <-syncChan after the committed addition, then return nil
WaitCommitted(p) ==
    /\ phase = "up"
    /\ pc[p] = "wait2"
    /\ syncChan[p] = "closed"
    /\ pc' = [pc EXCEPT ![p] = "done"]
    /\ UNCHANGED <<callVars, mu, walVars, files, sysVars>>

\* the deferred function: wal.mu.Lock()
LockRollback(p) ==
    /\ phase = "up"
    /\ pc[p] = "rollback"
    /\ mu = 0
    /\ mu' = p
    /\ pc' = [pc EXCEPT ![p] = "rollback_locked"]
    /\ UNCHANGED <<callVars, walVars, files, sysVars>>

\* the deferred function: the errored addition is appended and the file
\* removed; their errors are composed into the variable err.  The function's
\* result is unnamed, so the value the return statement took (returned) is
\* what the caller receives.
Rollback(p, appendOk, removeOk) ==
    /\ phase = "up"
    /\ pc[p] = "rollback_locked"
    /\ mu = p
    /\ log' = LogAfterAppend(StateChange(<<>>, <<>>, <<sfIndex[p]>>), appendOk)
    /\ uncommittedChanges' =
          UncommittedAfterAppend(StateChange(<<>>, <<>>, <<sfIndex[p]>>), appendOk)
    /\ files' = IF removeOk THEN [files EXCEPT ![sfPath[p]] = NoFile] ELSE files
    /\ err' = [err EXCEPT ![p] = @ \cup (IF appendOk THEN {} ELSE {"appendErrored"})
                                   \cup (IF removeOk /\ files[sfPath[p]] # NoFile
                                         THEN {} ELSE {"remove"})]
    /\ pc' = [pc EXCEPT ![p] = "done"]
    /\ mu' = 0
    /\ UNCHANGED <<sfPath, argSize, sfUsage, sfIndex, num, den, wi, returned, syncChan,
                   storageFolders, flushedLen, sysVars>>

----------------------------------------------------------------------------
(* Power failure and startup.                                              *)

\* A power failure: the memory of the process is lost; of the changes written
\* to the WAL file since the last flush any prefix may have reached the disk.
Crash ==
    /\ crashes < MaxCrashes
    /\ phase \in {"up", "cleanup"}
    /\ \E k \in flushedLen..Len(log) :
          /\ log' = SubSeq(log, 1, k)
          /\ flushedLen' = k
    /\ pc' = [p \in Calls |-> IF pc[p] \in {"idle", "done"} THEN pc[p] ELSE "crashed"]
    /\ err' = [p \in Calls |-> IF pc[p] = "done" THEN err[p] ELSE {}]
    /\ returned' = [p \in Calls |-> IF pc[p] = "done" THEN returned[p] ELSE {}]
    /\ sfUsage' = [p \in Calls |-> IF pc[p] = "done" THEN sfUsage[p] ELSE <<>>]
    /\ sfIndex' = [p \in Calls |-> IF pc[p] = "done" THEN sfIndex[p] ELSE 0]
    /\ argSize' = [p \in Calls |-> IF pc[p] = "done" THEN argSize[p] ELSE 0]
    /\ num' = [p \in Calls |-> 0]
    /\ den' = [p \in Calls |-> 0]
    /\ wi' = [p \in Calls |-> 0]
    /\ syncChan' = [p \in Calls |-> "none"]
    /\ failedReads' = [p \in Calls |-> 0]
    /\ mu' = 0
    /\ storageFolders' = [i \in Indices |-> NoSF]
    /\ uncommittedChanges' = <<>>
    /\ usfs' = {}
    /\ phase' = "down"
    /\ crashes' = crashes + 1
    /\ UNCHANGED <<sfPath, files, critical, faults, configuredMaximum>>

\* commitAddStorageFolder for every committed addition of the WAL, in order
RECURSIVE Replayed(_)
Replayed(scs) ==
    IF scs = <<>> THEN [i \in Indices |-> NoSF]
    ELSE PutAll(Replayed(SubSeq(scs, 1, Len(scs) - 1)),
                scs[Len(scs)].StorageFolderAdditions)

CommittedAdditions(scs) ==
    UNION {Range(scs[k].StorageFolderAdditions) : k \in 1..Len(scs)}

\* a startup that gives up when a sector file cannot be opened; C17 fails with it
StartRecoveryAborting(openOk) ==
    /\ phase = "down"
    /\ IF openOk
       THEN /\ storageFolders' = Replayed(log)
            /\ usfs' = findUnfinishedStorageFolderAdditions(log)
            /\ phase' = "cleanup"
       ELSE /\ phase' = "failed"
            /\ UNCHANGED <<storageFolders, usfs>>
    /\ faults' = faults + (IF openOk THEN 0 ELSE 1)
    /\ UNCHANGED <<pc, callVars, mu, uncommittedChanges, log, flushedLen, files,
                   crashes, configuredMaximum, failedReads, critical>>

\* startup: the WAL is replayed and the unfinished additions are looked up
StartRecovery(openOk) ==
    /\ phase = "down"
    /\ storageFolders' = Replayed(log)
    /\ failedReads' =
          [p \in Calls |->
              IF \E sf \in CommittedAdditions(log) :
                    sf.id = p /\ (files[sf.Path] = NoFile \/ ~openOk)
              THEN failedReads[p] + 1 ELSE failedReads[p]]
    /\ usfs' = findUnfinishedStorageFolderAdditions(log)
    /\ phase' = "cleanup"
    /\ faults' = faults + (IF openOk THEN 0 ELSE 1)
    /\ UNCHANGED <<pc, callVars, mu, uncommittedChanges, log, flushedLen, files,
                   crashes, configuredMaximum, critical>>

Recover == StartRecovery(TRUE)

\* an iteration that gives up when the file is not there; C16 fails with it
CleanupAbortsOnMissingFile(sf, removeOk, appendOk) ==
    /\ phase = "cleanup"
    /\ sf \in usfs
    /\ files' = IF removeOk THEN [files EXCEPT ![sf.Path] = NoFile] ELSE files
    /\ IF appendOk /\ files[sf.Path] # NoFile
       THEN /\ log' = LogAfterAppend(StateChange(<<>>, <<>>, <<sf.Index>>), TRUE)
            /\ uncommittedChanges' =
                  UncommittedAfterAppend(StateChange(<<>>, <<>>, <<sf.Index>>), TRUE)
            /\ usfs' = usfs \ {sf}
            /\ UNCHANGED phase
       ELSE /\ phase' = "failed"
            /\ UNCHANGED <<usfs, log, uncommittedChanges>>
    /\ faults' = faults + (IF removeOk /\ appendOk THEN 0 ELSE 1)
    /\ UNCHANGED <<pc, callVars, mu, storageFolders, flushedLen, crashes, configuredMaximum, failedReads,
                   critical>>

\* one iteration of the loop of cleanupUnfinishedStorageFolderAdditions
CleanupFolder(sf, removeOk, appendOk) ==
    /\ phase = "cleanup"
    /\ sf \in usfs
    /\ files' = IF removeOk THEN [files EXCEPT ![sf.Path] = NoFile] ELSE files
    /\ log' = LogAfterAppend(StateChange(<<>>, <<>>, <<sf.Index>>), appendOk)
    /\ uncommittedChanges' =
          UncommittedAfterAppend(StateChange(<<>>, <<>>, <<sf.Index>>), appendOk)
    /\ IF appendOk
       THEN /\ usfs' = usfs \ {sf}
            /\ UNCHANGED phase
       ELSE /\ phase' = "failed"
            /\ UNCHANGED usfs
    /\ faults' = faults + (IF removeOk /\ appendOk THEN 0 ELSE 1)
    /\ UNCHANGED <<pc, callVars, mu, storageFolders, flushedLen, crashes, configuredMaximum, failedReads,
                   critical>>

Cleanup(sf) == CleanupFolder(sf, TRUE, TRUE)

\* cleanupUnfinishedStorageFolderAdditions returns nil: the host is up
FinishRecovery ==
    /\ phase = "cleanup"
    /\ usfs = {}
    /\ phase' = "up"
    /\ UNCHANGED <<pc, callVars, mu, walVars, files, usfs, crashes, configuredMaximum, failedReads,
                   critical, faults>>

----------------------------------------------------------------------------
(* The specifications.                                                     *)

Init ==
    /\ pc = [p \in Calls |-> "idle"]
    /\ sfPath = [p \in Calls |-> ""]
    /\ argSize = [p \in Calls |-> 0]
    /\ sfUsage = [p \in Calls |-> <<>>]
    /\ sfIndex = [p \in Calls |-> 0]
    /\ num = [p \in Calls |-> 0]
    /\ den = [p \in Calls |-> 0]
    /\ wi = [p \in Calls |-> 0]
    /\ err = [p \in Calls |-> {}]
    /\ returned = [p \in Calls |-> {}]
    /\ syncChan = [p \in Calls |-> "none"]
    /\ mu = 0
    /\ storageFolders = [i \in Indices |-> NoSF]
    /\ uncommittedChanges = <<>>
    /\ log = <<>>
    /\ flushedLen = 0
    /\ files = [path \in Paths |-> NoFile]
    /\ phase = "up"
    /\ usfs = {}
    /\ crashes = 0
    /\ failedReads = [p \in Calls |-> 0]
    /\ critical = FALSE
    /\ faults = 0
    /\ configuredMaximum = maximumStorageFolders

SFDescriptors == [id : Calls, Index : Indices, Path : Paths]

\* the steps of the calls in flight and the flush
Step ==
    \/ \E p \in Calls : Lock1(p)
    \/ \E p \in Calls : ValidateReject(p)
    \/ \E p \in Calls : ManagedAddLocked(p)
    \/ \E p \in Calls : WaitPending(p)
    \/ \E p \in Calls : AllocateChunk(p)
    \/ \E p \in Calls : AllocateFinal(p)
    \/ \E p \in Calls : Disrupt(p)
    \/ \E p \in Calls : LockFinal(p)
    \/ \E p \in Calls : ResetNumerator(p)
    \/ \E p \in Calls : FinalizeLocked(p)
    \/ \E p \in Calls : WaitCommitted(p)
    \/ Sync

\* The host without I/O failures, called with arguments that pass the checks
\* of AddStorageFolder: concurrent calls, the flush, the disrupt hook, power
\* failures and startup.
Next ==
    \/ \E p \in Calls, path \in GoodPaths, size \in GoodSizes :
          AddStorageFolder(p, path, size)
    \/ Step
    \/ Crash
    \/ Recover
    \/ \E sf \in SFDescriptors : Cleanup(sf)
    \/ FinishRecovery

Spec == Init /\ [][Next]_vars

\* The host called with any arguments, without power failure.
NextEntry ==
    \/ \E p \in Calls, path \in Paths, size \in Sizes : AddStorageFolder(p, path, size)
    \/ Step

SpecEntry == Init /\ [][NextEntry]_vars

----------------------------------------------------------------------------
(* I/O failures: a file operation or an append to the WAL returns an error.*)

CreateFileFails(p) == faults < MaxFaults /\ AssignAndAppend(p, FALSE, TRUE)

\* the error of this append is not looked at by managedAddStorageFolder
PendingAppendFails(p) == faults < MaxFaults /\ AssignAndAppend(p, TRUE, FALSE)

ChunkWriteFails(p) == faults < MaxFaults /\ WriteChunkStep(p, FALSE)

FinalWriteFails(p) == faults < MaxFaults /\ FinishAllocation(p, FALSE, TRUE)

FileSyncFails(p) == faults < MaxFaults /\ FinishAllocation(p, TRUE, FALSE)

CommitAppendFails(p) == faults < MaxFaults /\ CommitAddition(p, FALSE)

\* the deferred function, whose own append and remove may fail as well
RollbackLocked(p) == \E appendOk, removeOk \in BOOLEAN : Rollback(p, appendOk, removeOk)

\* os.OpenFile fails for the committed additions of the WAL
ReopenFails ==
    /\ faults < MaxFaults
    /\ CommittedAdditions(log) # {}
    /\ StartRecovery(FALSE)

CleanupRemoveFails(sf) == faults < MaxFaults /\ CleanupFolder(sf, FALSE, TRUE)

CleanupAppendFails(sf) == faults < MaxFaults /\ CleanupFolder(sf, TRUE, FALSE)

\* The calls with I/O failures on their way, without power failure.
NextFail ==
    \/ \E p \in Calls, path \in GoodPaths, size \in GoodSizes :
          AddStorageFolder(p, path, size)
    \/ Step
    \/ \E p \in Calls : CreateFileFails(p)
    \/ \E p \in Calls : PendingAppendFails(p)
    \/ \E p \in Calls : ChunkWriteFails(p)
    \/ \E p \in Calls : FinalWriteFails(p)
    \/ \E p \in Calls : FileSyncFails(p)
    \/ \E p \in Calls : CommitAppendFails(p)
    \/ \E p \in Calls : LockRollback(p)
    \/ \E p \in Calls : RollbackLocked(p)

SpecFail == Init /\ [][NextFail]_vars

\* The steps of call p that the scheduler, the mutex and the file system
\* take in the end: every step but the failures and the disrupt hook.
CallStep(p) ==
    \/ Lock1(p)
    \/ ValidateReject(p)
    \/ ManagedAddLocked(p)
    \/ WaitPending(p)
    \/ AllocateChunk(p)
    \/ AllocateFinal(p)
    \/ LockFinal(p)
    \/ ResetNumerator(p)
    \/ FinalizeLocked(p)
    \/ WaitCommitted(p)
    \/ LockRollback(p)
    \/ RollbackLocked(p)

\* The calls with I/O failures, every goroutine running in the end and every
\* flush that is due completing.
SpecLive ==
    /\ Init
    /\ [][NextFail]_vars
    /\ \A p \in Calls : WF_vars(CallStep(p))
    /\ WF_vars(Sync)

\* The host with I/O failures and power failures.
NextIO ==
    \/ Next
    \/ \E p \in Calls : CreateFileFails(p)
    \/ \E p \in Calls : PendingAppendFails(p)
    \/ \E p \in Calls : ChunkWriteFails(p)
    \/ \E p \in Calls : FinalWriteFails(p)
    \/ \E p \in Calls : FileSyncFails(p)
    \/ \E p \in Calls : CommitAppendFails(p)
    \/ \E p \in Calls : LockRollback(p)
    \/ \E p \in Calls : RollbackLocked(p)
    \/ ReopenFails
    \/ \E sf \in SFDescriptors : CleanupRemoveFails(sf)
    \/ \E sf \in SFDescriptors : CleanupAppendFails(sf)

SpecIO == Init /\ [][NextIO]_vars

----------------------------------------------------------------------------
(* Startup interrupted: a power failure while the unfinished additions are *)
(* being cleaned up.  The calls are over and the memory holds the replayed *)
(* state alone; of the errored additions appended by the cleanup any       *)
(* prefix may have reached the disk.  These failures are not counted, the  *)
(* startup can be interrupted any number of times.                         *)
CrashInCleanup ==
    /\ phase = "cleanup"
    /\ \E k \in flushedLen..Len(log) :
          /\ log' = SubSeq(log, 1, k)
          /\ flushedLen' = k
    /\ failedReads' = [p \in Calls |-> 0]
    /\ storageFolders' = [i \in Indices |-> NoSF]
    /\ uncommittedChanges' = <<>>
    /\ usfs' = {}
    /\ phase' = "down"
    /\ UNCHANGED <<pc, callVars, mu, files, crashes, configuredMaximum, critical, faults>>

NextRecovery ==
    \/ Next
    \/ CrashInCleanup

SpecRecovery == Init /\ [][NextRecovery]_vars

\* The host of Spec with sector files that cannot be opened at startup.
NextReopen ==
    \/ Next
    \/ ReopenFails

SpecReopen == Init /\ [][NextReopen]_vars

----------------------------------------------------------------------------
(* A build whose maximum number of storage folders is the size of the      *)
(* index space, on a host that holds folders from earlier runs: every      *)
(* index but 0 is taken when the calls begin.                              *)
OldDirs == <<"/x", "/y", "/z">>

OldSF(i) == [id |-> 0, Index |-> i, Path |-> OldDirs[i]]

InitFull ==
    /\ pc = [p \in Calls |-> "idle"]
    /\ sfPath = [p \in Calls |-> ""]
    /\ argSize = [p \in Calls |-> 0]
    /\ sfUsage = [p \in Calls |-> <<>>]
    /\ sfIndex = [p \in Calls |-> 0]
    /\ num = [p \in Calls |-> 0]
    /\ den = [p \in Calls |-> 0]
    /\ wi = [p \in Calls |-> 0]
    /\ err = [p \in Calls |-> {}]
    /\ returned = [p \in Calls |-> {}]
    /\ syncChan = [p \in Calls |-> "none"]
    /\ mu = 0
    /\ storageFolders = [i \in Indices |-> IF i = 0 THEN NoSF ELSE OldSF(i)]
    /\ uncommittedChanges = <<>>
    /\ log = <<>>
    /\ flushedLen = 0
    /\ files = [path \in Paths |-> NoFile]
    /\ phase = "up"
    /\ usfs = {}
    /\ crashes = 0
    /\ failedReads = [p \in Calls |-> 0]
    /\ critical = FALSE
    /\ faults = 0
    /\ configuredMaximum = IndexSpace

NextFull ==
    \/ \E p \in Calls, path \in GoodPaths, size \in GoodSizes :
          AddStorageFolder(p, path, size)
    \/ Step

SpecFull == InitFull /\ [][NextFull]_vars

----------------------------------------------------------------------------
(* findUnfinishedStorageFolderAdditions on its own: the scan is given every *)
(* sequence of state changes up to a length, built one change at a time.    *)

\* two descriptors for every index, told apart by their path
ScanSFs == {[id |-> k, Index |-> i, Path |-> Dirs[k]] : k \in {1, 2}, i \in Indices}

\* a state change lists a pending addition, a committed addition or an errored
\* one, or a pending addition together with the entry that cancels it
ScanRecords ==
    {StateChange(<<d>>, <<>>, <<>>) : d \in ScanSFs}
    \cup {StateChange(<<>>, <<d>>, <<>>) : d \in {e \in ScanSFs : e.id = 1}}
    \cup {StateChange(<<>>, <<>>, <<i>>) : i \in Indices}
    \cup {StateChange(<<d>>, <<[d EXCEPT !.id = 1, !.Path = Dirs[1]]>>, <<>>) : d \in ScanSFs}
    \cup {StateChange(<<d>>, <<>>, <<d.Index>>) : d \in ScanSFs}

InitScan ==
    /\ pc = [p \in Calls |-> "idle"]
    /\ sfPath = [p \in Calls |-> ""]
    /\ argSize = [p \in Calls |-> 0]
    /\ sfUsage = [p \in Calls |-> <<>>]
    /\ sfIndex = [p \in Calls |-> 0]
    /\ num = [p \in Calls |-> 0]
    /\ den = [p \in Calls |-> 0]
    /\ wi = [p \in Calls |-> 0]
    /\ err = [p \in Calls |-> {}]
    /\ returned = [p \in Calls |-> {}]
    /\ syncChan = [p \in Calls |-> "none"]
    /\ mu = 0
    /\ storageFolders = [i \in Indices |-> NoSF]
    /\ uncommittedChanges = <<>>
    /\ log = <<>>
    /\ flushedLen = 0
    /\ files = [path \in Paths |-> NoFile]
    /\ phase = "scan"
    /\ usfs = {}
    /\ crashes = 0
    /\ failedReads = [p \in Calls |-> 0]
    /\ critical = FALSE
    /\ faults = 0
    /\ configuredMaximum = maximumStorageFolders

\* the sequence grows by one state change and is scanned
ScanAppend(sc) ==
    /\ phase = "scan"
    /\ Len(log) < MaxScanLen
    /\ log' = Append(log, sc)
    /\ usfs' = findUnfinishedStorageFolderAdditions(log')
    /\ UNCHANGED <<pc, callVars, mu, storageFolders, uncommittedChanges, flushedLen,
                   files, phase, crashes, configuredMaximum, failedReads, critical, faults>>

NextScan == \E sc \in ScanRecords : ScanAppend(sc)

SpecScan == InitScan /\ [][NextScan]_vars

----------------------------------------------------------------------------
(* Notions the properties are stated with.                                 *)

\* positions of a call whose pending addition was appended and is neither
\* committed nor errored yet
InFlightPcs == {"wait1", "alloc", "allocated", "fin_num", "fin_commit", "disrupted",
                "rollback", "rollback_locked"}

\* the folders that hold an index: the committed ones and those in flight
Held ==
    ({storageFolders[i] : i \in Indices} \ {NoSF})
    \cup {SF(p) : p \in {q \in Calls : pc[q] \in InFlightPcs}}

HeldIndices == {f.Index : f \in Held}

\* the path of call p is the path of a committed folder or of one in flight
PathTaken(p) ==
    \E f \in Held : f.id # p /\ f.Path = sfPath[p]

\* call p leaves the first locked section in this step
LeavesValidation(p) ==
    pc[p] = "validate" /\ pc'[p] \notin {"validate", "crashed"}

PendingRecords(scs) ==
    UNION {Range(scs[k].UnfinishedStorageFolderAdditions) : k \in 1..Len(scs)}

CommittedRecords(scs) ==
    UNION {Range(scs[k].StorageFolderAdditions) : k \in 1..Len(scs)}

\* an errored addition naming the index of f follows the pending addition of f
ErroredAfterPending(f) ==
    \E k \in 1..Len(log) : \E j \in (k + 1)..Len(log) :
        /\ f \in Range(log[k].UnfinishedStorageFolderAdditions)
        /\ f.Index \in Range(log[j].ErroredStorageFolderAdditions)

\* the additions a power failure interrupted: the pending addition is on disk
\* and no committed addition of the folder is
Interrupted ==
    {f \in PendingRecords(log) :
        pc[f.id] = "crashed" /\ \A g \in CommittedRecords(log) : g.id # f.id}

\* the committed addition of call p is in the flushed part of the WAL
CommitFlushed(p) ==
    \E k \in 1..flushedLen : \E g \in Range(log[k].StorageFolderAdditions) : g.id = p

ExpectedFileSize(p) ==
    (argSize[p] \div SectorSize) * (SectorSize + sectorMetadataDiskSize)

----------------------------------------------------------------------------
(* C1: concurrent additions on distinct paths all succeed and no two       *)
(* folders that are committed or in flight ever hold the same index; a     *)
(* committed folder stays in the registry under its own index.  (An        *)
(* addition can still be refused for capacity.)                            *)
C1_DistinctIndices ==
    /\ \A f, g \in Held : f.id # g.id => f.Index # g.Index
    /\ \A p \in Calls :
          (pc[p] = "wait2" \/ (pc[p] = "done" /\ err[p] = {} /\ phase = "up"))
             => storageFolders[sfIndex[p]] = SF(p)
    /\ \A p \in Calls :
          (pc[p] = "done" /\ \A q \in Calls \ {p} : sfPath[q] # sfPath[p])
             => err[p] \subseteq {"errMaxStorageFolders"}

\* two calls on distinct paths are both committed and neither has returned
C1_Witness ==
    /\ pc[1] = "wait2"
    /\ pc[2] = "wait2"
    /\ sfPath[1] # sfPath[2]
    /\ sfIndex[1] # sfIndex[2]

(* C2: a call that passed the entry checks and names the path of a folder  *)
(* that is committed or still pending fails with errRepeatFolder, appends  *)
(* nothing to the WAL and creates or truncates no file.                    *)
C2_DuplicateRejected ==
    [][\A p \in Calls :
          (LeavesValidation(p) /\ PathTaken(p))
             => /\ pc'[p] = "done"
                /\ err'[p] = {"errRepeatFolder"}
                /\ log' = log
                /\ uncommittedChanges' = uncommittedChanges
                /\ storageFolders' = storageFolders
                /\ files' = files]_vars

\* a call was refused as a duplicate of an addition that is in its allocation
\* phase, its pending addition flushed
C2_Witness ==
    \E p, q \in Calls :
        /\ pc[p] = "done"
        /\ err[p] = {"errRepeatFolder"}
        /\ pc[q] = "alloc"
        /\ sfPath[q] = sfPath[p]
        /\ flushedLen = Len(log)
        /\ files[sfPath[q]] = 0

(* C3: when the indices in use are as many as maximumStorageFolders, a     *)
(* further call fails with errMaxStorageFolders and appends nothing, so    *)
(* that the folders never outnumber maximumStorageFolders.                 *)
C3_CapacityEnforced ==
    /\ [][\A p \in Calls :
            (LeavesValidation(p) /\ ~PathTaken(p)
               /\ Cardinality(HeldIndices) = maximumStorageFolders)
               => /\ pc'[p] = "done"
                  /\ err'[p] = {"errMaxStorageFolders"}
                  /\ log' = log
                  /\ files' = files]_vars
    /\ [](Cardinality(HeldIndices) <= maximumStorageFolders)

(* C4: an addition interrupted by a power failure after its pending        *)
(* addition reached the disk is found by the startup scan, exactly once;   *)
(* its file is removed and an errored addition naming its index appended;  *)
(* the folder is in the registry in no state after the failure.            *)
C4_InterruptedAdditionCleaned ==
    /\ [](\A f \in Interrupted :
            /\ \A i \in Indices : storageFolders[i].id # f.id
            /\ phase = "cleanup" =>
                  \/ f \in usfs /\ Cardinality({g \in usfs : g.Index = f.Index}) = 1
                  \/ ErroredAfterPending(f)
            /\ phase = "up" => ErroredAfterPending(f))
    /\ [][\A f \in Interrupted :
            (f \in usfs /\ f \notin usfs' /\ phase' = "cleanup")
               => /\ files'[f.Path] = NoFile
                  /\ ErroredAfterPending(f)']_vars

\* the host is up again after the cleanup of an interrupted addition
C4_Witness ==
    \E f \in Interrupted :
        /\ phase = "up"
        /\ ErroredAfterPending(f)
        /\ files[f.Path] = NoFile
        /\ flushedLen = Len(log)

(* C5: when the startup after a power failure completes, a sector file     *)
(* exists exactly for the folders installed in the registry from a         *)
(* committed addition on disk; no file is left that no record accounts for.*)
DiskMatchesRegistry ==
    \A d \in GoodPaths :
        files[d] # NoFile <=>
            \E i \in Indices :
                /\ storageFolders[i] # NoSF
                /\ storageFolders[i].Path = d
                /\ storageFolders[i] \in CommittedRecords(log)

C5_ConsistentAfterRecovery ==
    [][(phase = "cleanup" /\ phase' = "up") => DiskMatchesRegistry']_vars

(* C6: a call with a valid size on a directory no other call names is not  *)
(* refused as a repeat (it returns nil unless the capacity is used up),    *)
(* and when a call has returned nil the folder is in the registry under    *)
(* its index, its usage bitmap is all zero and its file holds              *)
(* sectorCount * (SectorSize + sectorMetadataDiskSize) bytes.              *)
C6_SuccessfulAdd ==
    \A p \in Calls :
        /\ (pc[p] = "done" /\ err[p] = {} /\ phase # "down") =>
              /\ storageFolders[sfIndex[p]] = SF(p)
              /\ Len(sfUsage[p]) = (argSize[p] \div SectorSize) \div UsageWordBits
              /\ \A k \in 1..Len(sfUsage[p]) : sfUsage[p][k] = 0
              /\ files[sfPath[p]] = ExpectedFileSize(p)
        /\ pc[p] = "done" =>
              err[p] \in {{}, {"errRepeatFolder"}, {"errMaxStorageFolders"}}
        /\ (pc[p] = "done" /\ err[p] = {"errRepeatFolder"}) =>
              \E q \in Calls \ {p} : sfPath[q] = sfPath[p]

\* a call with a size that is no multiple of the sector size or of the chunk
\* has returned nil
C6_Witness ==
    \E p \in Calls :
        /\ pc[p] = "done"
        /\ err[p] = {}
        /\ argSize[p] = 1024 * SectorSize + 100
        /\ files[sfPath[p]] = 1024 * (SectorSize + sectorMetadataDiskSize)

(* C7: when the allocation phase of an add completes, the numerator of the *)
(* progress equals the denominator, both the total size.                   *)
C7_ProgressComplete ==
    \A p \in Calls :
        pc[p] = "allocated" => (num[p] = den[p] /\ den[p] = totalSize(p))

(* C8: the numerator never decreases from the start of the allocation to   *)
(* the finalizing step and never exceeds the denominator; after a          *)
(* successful add returned both are zero.                                  *)
C8_ProgressCounters ==
    /\ [](\A p \in Calls : num[p] <= den[p])
    /\ [](\A p \in Calls : (pc[p] = "done" /\ err[p] = {}) => (num[p] = 0 /\ den[p] = 0))
    /\ [][\A p \in Calls :
            (pc[p] \in {"wait1", "alloc", "allocated"}
               /\ pc'[p] \in {"wait1", "alloc", "allocated", "fin_num"})
               => num'[p] >= num[p]]_vars

\* an allocation is under way, one chunk written and reported
C8_Witness ==
    \E p \in Calls :
        /\ pc[p] = "alloc"
        /\ num[p] = WriteChunk
        /\ num[p] < den[p]

(* C9: without fault injection, a call has returned nil only when its      *)
(* committed addition is in the flushed part of the WAL.                   *)
C9_SuccessAfterFlush ==
    \A p \in Calls : (pc[p] = "done" /\ err[p] = {}) => CommitFlushed(p)

\* a call has returned nil and a later change is still to be flushed
C9_Witness ==
    \E p \in Calls :
        /\ pc[p] = "done"
        /\ err[p] = {}
        /\ flushedLen < Len(log)

(* C10: a call refused by the entry checks returns the error of a check    *)
(* its arguments fail, and leaves the registry, the WAL, the uncommitted   *)
(* changes and the files as they were; a call with arguments that fail a   *)
(* check never reaches the WAL.                                            *)
Sectors(p) == argSize[p] \div SectorSize

BadArguments(p) ==
    \/ Sectors(p) > maximumSectorsPerStorageFolder
    \/ Sectors(p) < minimumSectorsPerStorageFolder
    \/ Sectors(p) % storageFolderGranularity # 0
    \/ ~IsAbs(sfPath[p])
    \/ ~StatOk(sfPath[p])
    \/ ~IsDir(sfPath[p])

ErrorMatchesArguments(p) ==
    \/ err[p] = {"errLargeStorageFolder"} /\ Sectors(p) > maximumSectorsPerStorageFolder
    \/ err[p] = {"errSmallStorageFolder"} /\ Sectors(p) < minimumSectorsPerStorageFolder
    \/ err[p] = {"errStorageFolderGranularity"}
          /\ Sectors(p) % storageFolderGranularity # 0
    \/ err[p] = {"errRelativePath"} /\ ~IsAbs(sfPath[p])
    \/ err[p] = {"errStat"} /\ ~StatOk(sfPath[p])
    \/ err[p] = {"errStorageFolderNotFolder"} /\ ~IsDir(sfPath[p])

C10_EntryRejectionTouchesNothing ==
    /\ [](\A p \in Calls :
            (pc[p] # "idle" /\ BadArguments(p))
               => (pc[p] = "done" /\ ErrorMatchesArguments(p)))
    /\ [][\A p \in Calls :
            (pc[p] = "idle" /\ pc'[p] = "done")
               => /\ storageFolders' = storageFolders
                  /\ log' = log
                  /\ flushedLen' = flushedLen
                  /\ uncommittedChanges' = uncommittedChanges
                  /\ files' = files
                  /\ mu' = mu]_vars

\* a call was refused for a relative path while a folder is committed, a
\* pending addition is uncommitted and a file is on disk
C10_Witness ==
    \E p \in Calls :
        /\ pc[p] = "done"
        /\ err[p] = {"errRelativePath"}
        /\ \E i \in Indices : storageFolders[i] # NoSF
        /\ uncommittedChanges # <<>>
        /\ \E d \in GoodPaths : files[d] # NoFile

(* C11: the allocation phase writes to the file of a folder only when the   *)
(* pending addition of that folder is in the flushed part of the WAL.      *)
PendingFlushed(p) ==
    \E k \in 1..flushedLen : SF(p) \in Range(log[k].UnfinishedStorageFolderAdditions)

WritesToFile(p) ==
    /\ pc[p] = "alloc"
    /\ wi'[p] # wi[p] \/ pc'[p] \in {"allocated", "rollback"}
    /\ files'[sfPath[p]] # files[sfPath[p]]

C11_PendingFlushedBeforeWrite ==
    [][\A p \in Calls : WritesToFile(p) => PendingFlushed(p)]_vars

(* C12: every folder in the registry has a committed addition in the       *)
(* flushed part of the WAL.                                                *)
C12_RegistryAfterDurability ==
    \A i \in Indices :
        storageFolders[i] # NoSF =>
            \E k \in 1..flushedLen :
                storageFolders[i] \in Range(log[k].StorageFolderAdditions)

(* C13: when a call that failed after its pending addition returns from    *)
(* its rollback, the rollback itself without failure, the folder is not in *)
(* the registry, an errored addition naming its index was appended and its *)
(* file is removed.                                                        *)
RollbackReturns(p) ==
    /\ pc[p] = "rollback_locked"
    /\ pc'[p] = "done"
    /\ returned'[p] \in {{"write"}, {"sync"}, {"append"}}

C13_FailedAddDestroyed ==
    [][\A p \in Calls :
          (RollbackReturns(p) /\ err'[p] = err[p])
             => /\ \A i \in Indices : storageFolders'[i].id # p
                /\ log' = Append(log, StateChange(<<>>, <<>>, <<sfIndex[p]>>))
                /\ files'[sfPath[p]] = NoFile]_vars

(* C14: the rollback tries both the append of the errored addition and the *)
(* removal of the file, whichever fails, and the error the caller receives *)
(* is not nil and carries the error that led to the rollback and every     *)
(* error of the append and of the removal.                                 *)
C14_RollbackErrorsComposed ==
    [][\A p \in Calls :
          (pc[p] = "rollback_locked" /\ pc'[p] = "done")
             => /\ log' # log \/ "appendErrored" \in err'[p]
                /\ files'[sfPath[p]] = NoFile \/ "remove" \in err'[p]
                /\ returned'[p] # {}
                /\ err[p] \subseteq returned'[p]
                /\ err'[p] \subseteq returned'[p]]_vars

(* C15: findUnfinishedStorageFolderAdditions returns exactly, for every    *)
(* index that some state change lists as pending with no committed or      *)
(* errored entry for it in that state change or a later one, the           *)
(* descriptor of the latest pending entry of that index, once.             *)
ListsPending(sc, i) ==
    \E d \in Range(sc.UnfinishedStorageFolderAdditions) : d.Index = i

Cancels(sc, i) ==
    \/ \E d \in Range(sc.StorageFolderAdditions) : d.Index = i
    \/ i \in Range(sc.ErroredStorageFolderAdditions)

StillPending(scs, i) ==
    \E k \in 1..Len(scs) :
        /\ ListsPending(scs[k], i)
        /\ \A j \in k..Len(scs) : ~Cancels(scs[j], i)

LatestPending(scs, i) ==
    LET k == CHOOSE n \in 1..Len(scs) :
                 /\ ListsPending(scs[n], i)
                 /\ \A j \in (n + 1)..Len(scs) : ~ListsPending(scs[j], i)
        u == scs[k].UnfinishedStorageFolderAdditions
        m == CHOOSE n \in 1..Len(u) :
                 /\ u[n].Index = i
                 /\ \A j \in (n + 1)..Len(u) : u[j].Index # i
    IN u[m]

ExpectedUnfinished(scs) ==
    {LatestPending(scs, i) : i \in {j \in Indices : StillPending(scs, j)}}

C15_ScanExact ==
    phase = "scan" =>
        /\ usfs = ExpectedUnfinished(log)
        /\ \A f, g \in usfs : f.Index = g.Index => f = g

\* an index errored and used again: the scan reports the new addition
C15_Witness ==
    /\ phase = "scan"
    /\ Len(log) = 3
    /\ \E i \in Indices :
          /\ log[1] = StateChange(<<[id |-> 1, Index |-> i, Path |-> Dirs[1]]>>, <<>>, <<>>)
          /\ log[2] = StateChange(<<>>, <<>>, <<i>>)
          /\ log[3] = StateChange(<<[id |-> 2, Index |-> i, Path |-> Dirs[2]]>>, <<>>, <<>>)
          /\ usfs = {[id |-> 2, Index |-> i, Path |-> Dirs[2]]}

(* C16: during the startup cleanup the scan of the WAL as extended so far  *)
(* yields the additions still to be cleaned, so that after the cleanup it  *)
(* yields none and a second run removes and appends nothing; a run that    *)
(* finds the file of an unfinished addition already removed goes on and    *)
(* appends the errored addition of its index.                              *)
C16_RecoveryIdempotent ==
    /\ [](phase = "cleanup" => findUnfinishedStorageFolderAdditions(log) = usfs)
    /\ [](phase = "up" /\ (\A p \in Calls : pc[p] \in {"idle", "done", "crashed"})
             => findUnfinishedStorageFolderAdditions(log) = {})
    /\ [][\A f \in usfs :
            (phase = "cleanup" /\ files[f.Path] = NoFile /\ phase' # "down"
               /\ (f \notin usfs' \/ phase' = "failed"))
               => /\ phase' = "cleanup"
                  /\ f \notin usfs'
                  /\ log' = Append(log, StateChange(<<>>, <<>>, <<f.Index>>))
                  /\ files' = files]_vars
    /\ [][(phase = "cleanup" /\ usfs = {} /\ phase' # "down")
             => (phase' = "up" /\ log' = log /\ files' = files)]_vars

\* a run of the startup is about to clean an addition whose file the run
\* before it, interrupted by a power failure, had removed
C16_Witness ==
    /\ phase = "cleanup"
    /\ \E f \in usfs \cap Interrupted :
          /\ files[f.Path] = NoFile
          /\ ~ErroredAfterPending(f)

(* C17: the replay at startup puts every committed addition of the WAL     *)
(* into the registry under its index and goes on to the cleanup; the       *)
(* failedReads of a folder goes up by one when its file could not be       *)
(* opened and is unchanged when it could.                                  *)
ReopenFailed(f) == faults' # faults \/ files[f.Path] = NoFile

C17_ReplayInstallsFolder ==
    [][(phase = "down" /\ phase' # "down")
          => /\ phase' = "cleanup"
             /\ \A f \in CommittedAdditions(log) :
                   /\ storageFolders'[f.Index] = f
                   /\ failedReads'[f.id] =
                         failedReads[f.id] + (IF ReopenFailed(f) THEN 1 ELSE 0)]_vars

\* a folder whose file could not be opened is in the registry, the host up
C17_Witness ==
    \E i \in Indices :
        /\ storageFolders[i] # NoSF
        /\ failedReads[storageFolders[i].id] = 1
        /\ phase = "up"
        /\ crashes > 0

(* C18: a call holds the lock only inside its locked sections, never while *)
(* it allocates or waits for a flush; while one call allocates or waits,   *)
(* another call that asks for the lock gets it as soon as it is free, and  *)
(* a call inside its first locked section completes that section.          *)
LockedPcs == {"validate", "fin_num", "fin_commit", "rollback_locked"}

UnlockedPcs == {"wait1", "alloc", "allocated", "wait2", "disrupted"}

C18_LockFreeWhileAllocating ==
    /\ \A p \in Calls : mu = p => pc[p] \in LockedPcs
    /\ \A p \in Calls : pc[p] \in UnlockedPcs => mu # p
    /\ \A p, q \in Calls :
          (phase = "up" /\ pc[p] \in UnlockedPcs /\ q # p) =>
              /\ (pc[q] = "lock1" /\ mu = 0) => ENABLED Lock1(q)
              /\ pc[q] = "validate" => ENABLED (ValidateReject(q) \/ ManagedAddLocked(q))

\* one call is in its allocation loop, a chunk written, while another holds
\* the lock in its first locked section
C18_Witness ==
    \E p, q \in Calls :
        /\ pc[p] = "alloc"
        /\ wi[p] > 0
        /\ pc[q] = "validate"
        /\ mu = q
        /\ sfPath[q] # sfPath[p]

(* C19: with every flush that is due completing and every step of a call   *)
(* taken in the end, every call that entered managedAddStorageFolder       *)
(* returns, with success or with an error, the rollback included.          *)
Returned(p) == pc[p] \in {"done", "disrupted"}

C19_EveryCallReturns ==
    \A p \in Calls : (pc[p] = "lock1") ~> Returned(p)

\* one call has returned through the rollback and another with success
C19_Witness ==
    \E p, q \in Calls :
        /\ pc[p] = "done"
        /\ returned[p] \in {{"write"}, {"sync"}, {"append"}}
        /\ pc[q] = "done"
        /\ returned[q] = {}
        /\ sfIndex[q] # sfIndex[p]

(* C20: a call that passes the capacity check is given an index that no    *)
(* committed or pending folder holds; the probe never runs through the     *)
(* whole index space and the critical log of that branch is never written. *)
C20_ProbeNeverExhausted ==
    /\ [](critical = FALSE)
    /\ [][\A p \in Calls :
            (LeavesValidation(p) /\ ~IsRepeatFolder(p) /\ ~TooManyFolders)
               => /\ pc'[p] = "wait1"
                  /\ sfIndex'[p] \notin uniqueFolders]_vars

====
